---- MODULE Spec2Model ----
(***************************************************************************)
(* prettylogging/core.py as a state machine.                               *)
(*                                                                         *)
(* Part 1: indent_write, indent and indent_logger.  A stream's `write`     *)
(* attribute is the number of indent_write closures stacked on the         *)
(* stream's own write (0 = the original bound method): the code only ever  *)
(* assigns indent_write(stream.write) or a value read earlier from the     *)
(* same stream, so nothing else can be stored there.                       *)
(* Part 2: CMLogger, FileLogger, TelegramLogger, new_telegram_handler.     *)
(***************************************************************************)
EXTENDS Integers, Sequences, FiniteSets, TLC

VARIABLES
    write,      \* stream -> its current write primitive (streams that have one)
    stack,      \* thread -> stack of wrapper_inner activations (innermost last)
    outcome,    \* thread -> what the last finished wrapper_inner gave its caller
    lastWrite,  \* the call stream.write(message) just made, and what it did
    handlers,   \* logger -> logger.handlers (a list)
    propagate,  \* logger -> logger.propagate
    level,      \* logger -> logger.level
    cm,         \* CMLogger object -> its fields
    cms,        \* the CMLogger objects whose with block is open (innermost last)
    cmOutcome,  \* what the last __enter__ / with statement gave its caller
    lastEnter,  \* the __enter__ just made: its inputs and what creation did
    lastExit,   \* the __exit__ just made: its object and how its block ended
    log,        \* the logging calls of the step just made, in order
    timed,      \* stack of exec_time wrapper_inner activations (innermost last)
    now,        \* what time.time() returns, in tenths of a second
    dur,        \* the argument of the pretty_time call under study, in tenths
    text        \* what that call returned

indVars == <<write, stack, outcome, lastWrite>>
cmVars == <<cm, cms, cmOutcome, lastEnter, lastExit, log>>
logVars == <<handlers, propagate, level>>
timeVars == <<timed, now, dur, text>>
vars == <<write, stack, outcome, lastWrite, handlers, propagate, level,
          cm, cms, cmOutcome, lastEnter, lastExit, log, timed, now, dur, text>>

----------------------------------------------------------------------------
(* Bounds of the model *)

\* longest message written to a stream
MaxLen == 2
\* deepest nesting of decorated calls on one thread
MaxDepth == 2
\* CMLogger objects in use at once
MaxScopes == 2

----------------------------------------------------------------------------
(* Strings are sequences of characters *)

NL == "\n"
TAB == "\t"
Chars == {"a", NL}
Messages == UNION {[1..n -> Chars] : n \in 0..MaxLen}

\* indentation_sep = "\t"
indentation_sep == <<TAB>>

\* message[:-1]
AllButLast(message) ==
    IF Len(message) = 0 THEN <<>> ELSE SubSeq(message, 1, Len(message) - 1)

\* str.split("\n"): the pieces between newlines; "" splits to [""]
RECURSIVE Split(_)
Split(s) ==
    IF \A i \in 1..Len(s) : s[i] # NL
    THEN <<s>>
    ELSE LET i == CHOOSE k \in 1..Len(s) :
                      s[k] = NL /\ \A j \in 1..(k - 1) : s[j] # NL
         IN  <<SubSeq(s, 1, i - 1)>> \o Split(SubSeq(s, i + 1, Len(s)))

\* sep.join(parts)
RECURSIVE Join(_, _)
Join(sep, parts) ==
    IF Len(parts) = 0 THEN <<>>
    ELSE IF Len(parts) = 1 THEN parts[1]
    ELSE parts[1] \o sep \o Join(sep, Tail(parts))

\* indent_write.wrapper, lines 136-140: the message handed on to `write`.
\* message[-1] is evaluated as part of the expression: on "" it raises IndexError.
IndexErrorOnLast(message) == Len(message) = 0

\* a wrapper that forgets the unit in front of the first line
IndentedMessageNoLead(message) ==
    Join(<<NL>> \o indentation_sep, Split(AllButLast(message)))
        \o <<message[Len(message)]>>

IndentedMessage(message) ==
    indentation_sep
        \o Join(<<NL>> \o indentation_sep, Split(AllButLast(message)))
        \o <<message[Len(message)]>>

\* A call w(message) of a write primitive with w wrappers around the stream's
\* own write: what the stream itself received (sink), what the call returned
\* (the stream's write returns the number of characters), or the exception.
RECURSIVE CallWrite(_, _)
CallWrite(w, message) ==
    IF w = 0
    THEN [exc |-> "none", sink |-> <<message>>, ret |-> Len(message)]
    ELSE IF IndexErrorOnLast(message)
         THEN [exc |-> "IndexError", sink |-> <<>>, ret |-> 0]
         ELSE CallWrite(w - 1, IndentedMessage(message))

\* indent_write(write): a new closure around `write`
IndentWrite(w) == w + 1

----------------------------------------------------------------------------
(* Streams, handlers, loggers *)

\* "nw" is an object with no write attribute; "ro" is an object whose write
\* attribute cannot be assigned (an instance of a class with empty __slots__
\* or with a write property without setter: the assignment raises AttributeError)
Streams == {"s1", "s2", "nw", "ro"}
HasWrite(stream) == stream # "nw"
CanAssign(stream) == stream # "ro"
WStreams == {s \in Streams : HasWrite(s)}

\* the argument lists of indent(*streams) that are tried
StreamLists == {<<"s1">>, <<"s2">>, <<"s1", "s2">>, <<"nw", "s1">>}

\* the argument lists that name a stream more than once
RepeatLists == {<<"s1", "s1">>, <<"s1", "s2", "s1">>}

\* the argument lists of the decorators of two threads
OverlapLists == {<<"s1">>}

\* the argument lists with a stream whose write cannot be assigned
FailingLists == {<<"ro">>, <<"s1", "ro">>, <<"nw", "s2", "ro", "s1">>}

\* hT is a handler without a stream attribute (e.g. a TelegramHandler); h1 and
\* h1b are two handlers on the same stream
Handlers == {"h1", "h1b", "h2", "hN", "hT"}
HasStream(h) == h # "hT"
StreamOf(h) ==
    CASE h \in {"h1", "h1b"} -> "s1" [] h = "h2" -> "s2" [] OTHER -> "nw"

Loggers == {"root", "pkg", "app"}
HasParent(l) == l # "root"
Parent(l) == IF l = "app" THEN "pkg" ELSE "root"

Threads == {1, 2}
MainThread == 1

Exceptions == {"E1", "E2"}
Values == {"r1"}

None == [kind |-> "none", val |-> "none"]

\* a walk that goes up to the root whatever the propagate flags are
RECURSIVE StreamsOfChainToRoot(_)
StreamsOfChainToRoot(c) ==
    LET own == SelectSeq(handlers[c], HasStream)
        str == [i \in 1..Len(own) |-> StreamOf(own[i])]
    IN  IF HasParent(c)
        THEN str \o StreamsOfChainToRoot(Parent(c))
        ELSE str

\* indent_logger.wrapper_inner, lines 226-239: the streams of the handlers of the
\* logger and of its parents, while propagate holds
RECURSIVE StreamsOfChain(_)
StreamsOfChain(c) ==
    LET own == SelectSeq(handlers[c], HasStream)
        str == [i \in 1..Len(own) |-> StreamOf(own[i])]
    IN  IF propagate[c] /\ HasParent(c)
        THEN str \o StreamsOfChain(Parent(c))
        ELSE str

\* lines 191-193 / 242-244: stream.write if hasattr(stream, "write") else None.
\* None is <<>>, a saved primitive w is <<w>>.
SavedWrites(w, streams) ==
    [i \in 1..Len(streams) |->
        IF HasWrite(streams[i]) THEN <<w[streams[i]]>> ELSE <<>>]

\* a patching loop that stops after the first stream
PatchFirstOnly(w, streams, old_write, i) ==
    IF Len(streams) = 0 \/ old_write[1] = <<>> THEN w
    ELSE [w EXCEPT ![streams[1]] = IndentWrite(w[streams[1]])]

\* a patching loop that stops at the first stream without a write
RECURSIVE PatchStopAtNone(_, _, _, _)
PatchStopAtNone(w, streams, old_write, i) ==
    IF i > Len(streams) \/ old_write[i] = <<>> THEN w
    ELSE PatchStopAtNone([w EXCEPT ![streams[i]] = IndentWrite(w[streams[i]])],
                         streams, old_write, i + 1)

\* lines 195-197 / 246-248: the patching loop from index i on
RECURSIVE Patch(_, _, _, _)
Patch(w, streams, old_write, i) ==
    IF i > Len(streams) THEN w
    ELSE Patch(IF old_write[i] # <<>>
               THEN [w EXCEPT ![streams[i]] = IndentWrite(w[streams[i]])]
               ELSE w,
               streams, old_write, i + 1)

\* a restoring loop that misses the first stream
RestoreSkipFirst(w, streams, old_write, i) ==
    [s \in DOMAIN w |->
        IF \E k \in 2..Len(streams) : streams[k] = s /\ old_write[k] # <<>>
        THEN old_write[CHOOSE k \in 2..Len(streams) :
                           streams[k] = s /\ old_write[k] # <<>>][1]
        ELSE w[s]]

\* a restoring loop that takes one wrapper off instead of assigning the saved
\* primitive
RECURSIVE RestoreUnwrap(_, _, _, _)
RestoreUnwrap(w, streams, old_write, i) ==
    IF i > Len(streams) THEN w
    ELSE RestoreUnwrap(IF old_write[i] # <<>>
                       THEN [w EXCEPT ![streams[i]] = w[streams[i]] - 1]
                       ELSE w,
                       streams, old_write, i + 1)

\* lines 202-204 / 253-255: the restoring loop from index i on
RECURSIVE Restore(_, _, _, _)
Restore(w, streams, old_write, i) ==
    IF i > Len(streams) THEN w
    ELSE Restore(IF old_write[i] # <<>>
                 THEN [w EXCEPT ![streams[i]] = old_write[i][1]]
                 ELSE w,
                 streams, old_write, i + 1)

----------------------------------------------------------------------------
(* The threads of control *)

Top(t) == stack[t][Len(stack[t])]

\* thread t is executing caller code or the body of its innermost decorated call
Running(t) == IF stack[t] = <<>> THEN TRUE ELSE Top(t).pc = "body"

\* the active scopes (of any thread) that patched stream s
Patched(frame, s) ==
    \E i \in 1..Len(frame.streams) :
        frame.streams[i] = s /\ frame.old_write[i] # <<>>

Covering(s) ==
    UNION {{<<t, d>> : d \in {k \in 1..Len(stack[t]) : Patched(stack[t][k], s)}} :
              t \in Threads}

NoWrite ==
    [stream |-> "none", msg |-> <<>>, exc |-> "none", sink |-> <<>>, ret |-> 0]

\* the first index at which `stream.write = ...` (line 197 / 248) raises, 0 if
\* there is none
FailAt(streams, old_write) ==
    LET bad == {i \in 1..Len(streams) :
                   old_write[i] # <<>> /\ ~CanAssign(streams[i])}
    IN  IF bad = {} THEN 0 ELSE CHOOSE i \in bad : \A j \in bad : i <= j

\* wrapper_inner up to the call of func: save, patch, enter the try block.
\* The patching loop stands before the try statement, so an assignment that
\* raises leaves wrapper_inner at once, the finally block not being entered.
\* `logger` is the logger of indent_logger, "none" for indent.  No stream
\* carries more than MaxDepth wrappers.
EnterScope(t, logger, streams) ==
    /\ Running(t)
    /\ Len(stack[t]) < MaxDepth
    /\ \A s \in WStreams : write[s] < MaxDepth
    /\ LET old_write == SavedWrites(write, streams)
           k == FailAt(streams, old_write)
       IN  IF k = 0
           THEN /\ write' = Patch(write, streams, old_write, 1)
                /\ stack' = [stack EXCEPT ![t] = Append(@,
                       [streams |-> streams, old_write |-> old_write,
                        pc |-> "body", result |-> None, entry |-> write,
                        logger |-> logger])]
                /\ outcome' = [outcome EXCEPT ![t] = None]
           ELSE /\ write' = Patch(write, SubSeq(streams, 1, k - 1),
                                  SubSeq(old_write, 1, k - 1), 1)
                /\ outcome' = [outcome EXCEPT
                                  ![t] = [kind |-> "raise", val |-> "AttributeError"]]
                /\ UNCHANGED stack
    /\ lastWrite' = NoWrite
    /\ UNCHANGED <<logVars, cmVars, timeVars>>

\* a call of a function decorated with @indent(*streams), streams among lists
IndentFrom(t, lists) ==
    \E streams \in lists : EnterScope(t, "none", streams)

\* a call of a function decorated with @indent(*streams)
Indent(t) == IndentFrom(t, StreamLists)

\* a call of a function decorated with @indent_logger(logger)
IndentLogger(t) ==
    \E logger \in Loggers : EnterScope(t, logger, StreamsOfChain(logger))

\* the running code calls stream.write(message)
Write(t) ==
    /\ Running(t)
    /\ \E s \in WStreams, message \in Messages :
          LET r == CallWrite(write[s], message)
          IN  lastWrite' = [stream |-> s, msg |-> message,
                            exc |-> r.exc, sink |-> r.sink, ret |-> r.ret]
    /\ UNCHANGED <<write, stack, outcome, logVars, cmVars, timeVars>>

\* func returns r (line 199 / 250)
FuncReturn(t) ==
    /\ stack[t] # <<>> /\ Top(t).pc = "body"
    /\ \E r \in Values :
          stack' = [stack EXCEPT ![t][Len(stack[t])] =
                        [@ EXCEPT !.pc = "finally",
                                  !.result = [kind |-> "return", val |-> r]]]
    /\ lastWrite' = NoWrite
    /\ UNCHANGED <<write, outcome, logVars, cmVars, timeVars>>

\* func raises e (line 199 / 250)
FuncRaise(t) ==
    /\ stack[t] # <<>> /\ Top(t).pc = "body"
    /\ \E e \in Exceptions :
          stack' = [stack EXCEPT ![t][Len(stack[t])] =
                        [@ EXCEPT !.pc = "finally",
                                  !.result = [kind |-> "raise", val |-> e]]]
    /\ lastWrite' = NoWrite
    /\ UNCHANGED <<write, outcome, logVars, cmVars, timeVars>>

\* the finally block (lines 200-204 / 251-255)
Finally(t) ==
    /\ stack[t] # <<>> /\ Top(t).pc = "finally"
    /\ write' = Restore(write, Top(t).streams, Top(t).old_write, 1)
    /\ stack' = [stack EXCEPT ![t][Len(stack[t])].pc = "exit"]
    /\ lastWrite' = NoWrite
    /\ UNCHANGED <<outcome, logVars, cmVars, timeVars>>

\* a wrapper_inner that swallows the exception of func and returns None
LeavingSuppressed(result) ==
    IF result.kind = "raise" THEN [kind |-> "return", val |-> "none"] ELSE result

\* what leaves wrapper_inner after the finally block: `return r` (line 205 /
\* 256), or the exception of func, which the try statement does not catch
Leaving(result) == result

\* control goes back to the caller of wrapper_inner
Leave(t) ==
    /\ stack[t] # <<>> /\ Top(t).pc = "exit"
    /\ outcome' = [outcome EXCEPT ![t] = Leaving(Top(t).result)]
    /\ stack' = [stack EXCEPT ![t] = SubSeq(@, 1, Len(@) - 1)]
    /\ lastWrite' = NoWrite
    /\ UNCHANGED <<write, logVars, cmVars, timeVars>>

----------------------------------------------------------------------------
(* Logging: levels, and which handlers a logging call reaches *)

NOTSET == 0
DEBUG == 10
INFO == 20
WARNING == 30
ERROR == 40
CRITICAL == 50

\* the names of the CMLogger objects; the handler a CMLogger object creates is
\* named after the object
ScopeNames == <<"c1", "c2", "c3", "c4">>
ScopeIds == {ScopeNames[i] : i \in 1..MaxScopes}

\* module_logger (lines 11-16): level INFO, one stdout handler, child of root
ModuleLogger == "prettylogging.core"
ModuleHandler == "hM"

HandlersOf(hs, l) == IF l = ModuleLogger THEN <<ModuleHandler>> ELSE hs[l]
PropagateOf(l) == IF l = ModuleLogger THEN TRUE ELSE propagate[l]
ParentOf(l) == IF l = ModuleLogger THEN "root" ELSE Parent(l)
LevelOf(l) == IF l = ModuleLogger THEN INFO ELSE level[l]

\* Logger.getEffectiveLevel: the first level set on the way up
RECURSIVE EffectiveLevel(_)
EffectiveLevel(l) ==
    IF LevelOf(l) # NOTSET THEN LevelOf(l)
    ELSE IF HasParent(l) THEN EffectiveLevel(ParentOf(l)) ELSE NOTSET

\* Handler.level of handler h, objects being the CMLogger objects' fields
HandlerLevel(objects, h) == IF h \in ScopeIds THEN objects[h].hlevel ELSE NOTSET

Range(list) == {list[i] : i \in 1..Len(list)}

\* Logger.callHandlers: the handlers of l and of its parents, while propagate
\* holds, whose level lets a record of severity lvl through
RECURSIVE Receivers(_, _, _, _)
Receivers(hs, objects, l, lvl) ==
    LET own == {h \in Range(HandlersOf(hs, l)) : lvl >= HandlerLevel(objects, h)}
    IN  IF PropagateOf(l) /\ HasParent(l)
        THEN own \cup Receivers(hs, objects, ParentOf(l), lvl)
        ELSE own

\* a call logger.log(lvl, what) with the handler lists hs: the record of the
\* call and the handlers that emitted it
LogCall(hs, objects, l, lvl, what) ==
    [logger |-> l, level |-> lvl, what |-> what,
     to |-> IF lvl >= EffectiveLevel(l)
            THEN Receivers(hs, objects, l, lvl) ELSE {}]

----------------------------------------------------------------------------
(* new_telegram_handler *)

NoChat == [t |-> "none", i |-> 0, s |-> ""]
IntChat(i) == [t |-> "int", i |-> i, s |-> ""]
StrChat(str) == [t |-> "str", i |-> 0, s |-> str]

\* the chat_ID arguments tried: None, 0, 7, "", "0" and the path "~/id"
ChatIDs == {NoChat, IntChat(0), IntChat(7), StrChat(""), StrChat("0"), StrChat("~/id")}
\* the token arguments tried: None, a token, the path of a token file
Tokens == {"none", "tok", "~/tokfile"}
\* the first line of the file ~/id, or "missing" when there is no such file
FileLines == {"missing", "0", "7", ""}

\* int(str): the strings of digits used here convert, the others raise ValueError
ParseInt(str) ==
    CASE str = "0" -> [ok |-> TRUE, v |-> 0]
      [] str = "7" -> [ok |-> TRUE, v |-> 7]
      [] OTHER -> [ok |-> FALSE, v |-> 0]

\* lines 355-361: chat_ID as an integer, or the exception raised on the way.
\* open("") finds no file whatever the file system holds.
ResolveChat(chat_ID, idLine) ==
    IF chat_ID.t = "int" THEN [exc |-> "none", v |-> chat_ID.i]
    ELSE IF ParseInt(chat_ID.s).ok THEN [exc |-> "none", v |-> ParseInt(chat_ID.s).v]
    ELSE IF chat_ID.s = "" \/ idLine = "missing"
         THEN [exc |-> "FileNotFoundError", v |-> 0]
    ELSE IF ParseInt(idLine).ok THEN [exc |-> "none", v |-> ParseInt(idLine).v]
    ELSE [exc |-> "ValueError", v |-> 0]

\* lines 365-371: the token, read from the file when there is one of that name
ResolveToken(token) == IF token = "~/tokfile" THEN "filetok" ELSE token

NoHandler(calls) ==
    [exc |-> "none", made |-> FALSE, hlevel |-> NOTSET, token |-> "none",
     chat |-> 0, calls |-> calls]

\* new_telegram_handler(chat_ID, token, level), lines 343-384: the exception
\* raised, or whether a handler is returned (and its level), and the calls
\* made on module_logger
NewTelegramHandler(installed, chat_ID, token, lvl, idLine) ==
    IF ~installed
    THEN NoHandler(<<LogCall(handlers, cm, ModuleLogger, ERROR, "missing_extra")>>)
    ELSE IF chat_ID.t = "none" \/ token = "none" THEN NoHandler(<<>>)
    ELSE LET id == ResolveChat(chat_ID, idLine)
         IN  IF id.exc # "none" THEN [NoHandler(<<>>) EXCEPT !.exc = id.exc]
             ELSE IF id.v = 0 THEN NoHandler(<<>>)
             ELSE [exc |-> "none", made |-> TRUE, hlevel |-> lvl,
                   token |-> ResolveToken(token), chat |-> id.v, calls |-> <<>>]

----------------------------------------------------------------------------
(* CMLogger, TelegramLogger, FileLogger *)

Classes == {"CMLogger", "TelegramLogger", "FileLogger"}
\* the loggers the scopes are opened on
CMTargets == {"app"}
\* the level arguments tried
ScopeLevels == {INFO, CRITICAL}
\* the severities the running code logs at
UserLevels == {INFO, ERROR}

\* a CMLogger object that is not in use
Unused ==
    [st |-> "unused", cls |-> "none", logger |-> "none", level |-> NOTSET,
     handler |-> "none", hlevel |-> NOTSET, entry |-> <<>>]

NoEnter ==
    [scope |-> "none", cls |-> "none", logger |-> "none",
     chat_ID |-> NoChat, token |-> "none",
     installed |-> TRUE, result |-> "none", exc |-> "none"]

\* create_new_handler of the three classes (lines 397-398, 474-477, 516-520):
\* FileHandler leaves the level of the handler at NOTSET
CreateNewHandler(cls, lvl, installed, chat_ID, token, idLine, fsOK) ==
    CASE cls = "CMLogger" -> [NoHandler(<<>>) EXCEPT !.exc = "NotImplementedError"]
      [] cls = "TelegramLogger" ->
            NewTelegramHandler(installed, chat_ID, token, lvl, idLine)
      [] cls = "FileLogger" ->
            IF fsOK
            THEN [NoHandler(<<>>) EXCEPT !.made = TRUE]
            ELSE [NoHandler(<<>>) EXCEPT !.exc = "OSError"]

\* a __enter__ that logs the failure of creation and goes on
ReraiseNothing(e) == None

\* line 407: raise e
Reraise(e) == [kind |-> "raise", val |-> e]

\* the arguments and the environment that matter to a class: the level and
\* whether the file can be opened for FileLogger; the level, chat_ID, token,
\* whether telegram_handler can be imported and the file ~/id for TelegramLogger
Inputs(cls) ==
    CASE cls = "CMLogger" ->
            {[lvl |-> INFO, installed |-> TRUE, chat_ID |-> NoChat,
              token |-> "none", idLine |-> "missing", fsOK |-> TRUE]}
      [] cls = "FileLogger" ->
            {[lvl |-> v, installed |-> TRUE, chat_ID |-> NoChat,
              token |-> "none", idLine |-> "missing", fsOK |-> ok] :
                v \in ScopeLevels, ok \in BOOLEAN}
      [] cls = "TelegramLogger" ->
            UNION {{[lvl |-> v, installed |-> i, chat_ID |-> ch,
                     token |-> tk, idLine |-> ln, fsOK |-> TRUE] :
                        v \in ScopeLevels, i \in BOOLEAN, tk \in Tokens,
                        ln \in (IF ch = StrChat("~/id") THEN FileLines
                                                        ELSE {"missing"})} :
                      ch \in ChatIDs}

\* no __exit__ was made in the step
NoExit == [scope |-> "none", how |-> None, handler |-> "none"]

\* the object the next with statement constructs
NextScope(c) ==
    \E i \in 1..MaxScopes :
        /\ c = ScopeNames[i]
        /\ cm[c].st = "unused"
        /\ \A j \in 1..(i - 1) : cm[ScopeNames[j]].st # "unused"

\* `with Class(logger, ..., level=lvl):` up to the block, for a class among
\* `classes`: __init__, __enter__
WithOf(c, classes) ==
    /\ NextScope(c)
    /\ \E cls \in classes, l \in CMTargets :
       \E in \in Inputs(cls) :
          LET lvl == in.lvl
              installed == in.installed
              chat_ID == in.chat_ID
              token == in.token
              idLine == in.idLine
              fsOK == in.fsOK
          IN
          LET r == CreateNewHandler(cls, lvl, installed, chat_ID, token, idLine, fsOK)
              enter == [scope |-> c, cls |-> cls, logger |-> l,
                        chat_ID |-> IF cls = "TelegramLogger" THEN chat_ID ELSE NoChat,
                        token |-> IF cls = "TelegramLogger" THEN token ELSE "none",
                        installed |-> IF cls = "TelegramLogger" THEN installed ELSE TRUE,
                        result |-> "none", exc |-> r.exc]
              self == [st |-> "active", cls |-> cls, logger |-> l, level |-> lvl,
                       handler |-> IF r.made THEN c ELSE "none",
                       hlevel |-> r.hlevel, entry |-> handlers[l]]
          IN  IF r.exc # "none"
              THEN /\ log' = r.calls \o
                         <<LogCall(handlers, cm, l, ERROR, "create_failed")>>
                   /\ cmOutcome' = Reraise(r.exc)
                   /\ lastEnter' = [enter EXCEPT !.result = "raise"]
                   /\ UNCHANGED <<cm, cms, handlers>>
              ELSE IF ~r.made
              THEN /\ log' = r.calls
                   /\ cmOutcome' = None
                   /\ lastEnter' = [enter EXCEPT !.result = "inert"]
                   /\ cm' = [cm EXCEPT ![c] = self]
                   /\ cms' = Append(cms, c)
                   /\ UNCHANGED handlers
              ELSE /\ handlers' = [handlers EXCEPT ![l] = Append(@, c)]
                   /\ cm' = [cm EXCEPT ![c] = self]
                   /\ log' = r.calls \o <<LogCall(handlers', cm', l, DEBUG, "added")>>
                   /\ cmOutcome' = None
                   /\ lastEnter' = [enter EXCEPT !.result = "attached"]
                   /\ cms' = Append(cms, c)
    /\ lastExit' = NoExit
    /\ UNCHANGED <<indVars, propagate, level, timeVars>>

With(c) == WithOf(c, Classes)

\* the running code logs a record
UserLog ==
    /\ \E l \in Loggers, lvl \in UserLevels :
          log' = <<LogCall(handlers, cm, l, lvl, "user")>>
    /\ lastEnter' = NoEnter
    /\ lastExit' = NoExit
    /\ UNCHANGED <<indVars, logVars, cm, cms, cmOutcome, timeVars>>

\* a __exit__ that forgets line 424
RemoveNothing(list, x) == list

\* a __exit__ that pops the handler list
RemoveLast(list, x) == SubSeq(list, 1, Len(list) - 1)

\* list.remove(x): the list without the first x
RemoveFirst(list, x) ==
    LET i == CHOOSE k \in 1..Len(list) :
                 list[k] = x /\ \A j \in 1..(k - 1) : list[j] # x
    IN  SubSeq(list, 1, i - 1) \o SubSeq(list, i + 1, Len(list))

\* a __exit__ that logs the traceback only after removing the handler
TracebackCallLate(before, after, l) == LogCall(after, cm, l, ERROR, "traceback")

\* line 423: logger.error(traceback.format_exc()), the handler lists being
\* `before` at that line and `after` once line 424 has run
TracebackCall(before, after, l) == LogCall(before, cm, l, ERROR, "traceback")

\* a __exit__ whose traceback line is not under `if self.handler is not None`
ExitCallsUnguarded(c, how, before, after) ==
    (IF how.kind = "raise"
     THEN <<TracebackCall(before, after, cm[c].logger)>> ELSE <<>>)
    \o (IF cm[c].handler # "none"
        THEN <<LogCall(after, cm, cm[c].logger, DEBUG, "removed")>> ELSE <<>>)

\* lines 421-425: the logging calls of __exit__, in order; none at all when
\* self.handler is None
ExitCalls(c, how, before, after) ==
    IF cm[c].handler # "none"
    THEN (IF how.kind = "raise"
          THEN <<TracebackCall(before, after, cm[c].logger)>> ELSE <<>>)
         \o <<LogCall(after, cm, cm[c].logger, DEBUG, "removed")>>
    ELSE <<>>

\* a __exit__ that returns True
AfterExitSuppressed(how) == [kind |-> "return", val |-> "none"]

\* what the with statement gives its caller once __exit__ has returned: the
\* method has no return statement, so it returns None and an exception of the
\* block is raised again
AfterExit(how) == how

\* the ways a with block can end
BlockEnds ==
    {[kind |-> "return", val |-> "none"]}
        \cup {[kind |-> "raise", val |-> e] : e \in Exceptions}

\* the list without its element number i
DropAt(list, i) == SubSeq(list, 1, i - 1) \o SubSeq(list, i + 1, Len(list))

\* the with block of the open scope c ends, by falling off its end or by an
\* exception: __exit__ (lines 421-425)
ExitScope(c) ==
    /\ \E i \in 1..Len(cms) : cms[i] = c /\ cms' = DropAt(cms, i)
    /\ \E how \in BlockEnds :
          /\ handlers' = IF cm[c].handler # "none"
                         THEN [handlers EXCEPT
                                  ![cm[c].logger] = RemoveFirst(@, cm[c].handler)]
                         ELSE handlers
          /\ log' = ExitCalls(c, how, handlers, handlers')
          /\ cmOutcome' = AfterExit(how)
          /\ lastExit' = [scope |-> c, how |-> how, handler |-> cm[c].handler]
    /\ cm' = [cm EXCEPT ![c] = Unused]
    /\ lastEnter' = NoEnter
    /\ UNCHANGED <<indVars, propagate, level, timeVars>>

\* with blocks of one thread of control are nested: the innermost ends first
ExitWith == cms # <<>> /\ ExitScope(cms[Len(cms)])

\* with blocks of several threads of control end in any order
ExitAny == \E c \in ScopeIds : ExitScope(c)

----------------------------------------------------------------------------
(* The specification of the indentation scopes on one thread of control *)

\* the handler lists a program may have set up before the decorated calls
HandlerSetups ==
    {[root |-> <<"h1">>, pkg |-> <<"hT">>, app |-> <<"h2", "hN">>]}

Init ==
    /\ write = [s \in WStreams |-> 0]
    /\ stack = [t \in Threads |-> <<>>]
    /\ outcome = [t \in Threads |-> None]
    /\ lastWrite = NoWrite
    /\ handlers \in HandlerSetups
    /\ propagate \in {p \in [Loggers -> BOOLEAN] : p["root"]}
    /\ level = [root |-> WARNING, pkg |-> NOTSET, app |-> DEBUG]
    /\ cm = [c \in ScopeIds |-> Unused]
    /\ cms = <<>>
    /\ cmOutcome = None
    /\ lastEnter = NoEnter
    /\ lastExit = NoExit
    /\ log = <<>>
    /\ timed = <<>>
    /\ now = 0
    /\ dur = 0
    /\ text = "unset"

Step(t) ==
    \/ Indent(t)
    \/ IndentLogger(t)
    \/ Write(t)
    \/ FuncReturn(t)
    \/ FuncRaise(t)
    \/ Finally(t)
    \/ Leave(t)

Next == Step(MainThread)

Spec == Init /\ [][Next]_vars

----------------------------------------------------------------------------
(* The specification of the scoped destinations (with blocks, nested) *)

InitCM ==
    /\ write = [s \in WStreams |-> 0]
    /\ stack = [t \in Threads |-> <<>>]
    /\ outcome = [t \in Threads |-> None]
    /\ lastWrite = NoWrite
    /\ handlers \in HandlerSetups
    /\ propagate \in {p \in [Loggers -> BOOLEAN] : p["root"] /\ p["pkg"]}
    /\ level \in {[root |-> WARNING, pkg |-> NOTSET, app |-> a] :
                      a \in {NOTSET, DEBUG, CRITICAL}}
    /\ cm = [c \in ScopeIds |-> Unused]
    /\ cms = <<>>
    /\ cmOutcome = None
    /\ lastEnter = NoEnter
    /\ lastExit = NoExit
    /\ log = <<>>
    /\ timed = <<>>
    /\ now = 0
    /\ dur = 0
    /\ text = "unset"

NextCM ==
    \/ \E c \in ScopeIds : With(c)
    \/ UserLog
    \/ ExitWith

SpecCM == InitCM /\ [][NextCM]_vars

----------------------------------------------------------------------------
(* Properties of the indentation scopes *)

Tabs(k) == [i \in 1..k |-> TAB]

\* message with k units in front of every line: at its start and after every
\* newline that is not its last character
RECURSIVE PrefixedFrom(_, _, _)
PrefixedFrom(message, k, i) ==
    IF i > Len(message) THEN <<>>
    ELSE <<message[i]>>
            \o (IF message[i] = NL /\ i < Len(message) THEN Tabs(k) ELSE <<>>)
            \o PrefixedFrom(message, k, i + 1)

Prefixed(message, k) == Tabs(k) \o PrefixedFrom(message, k, 1)

\* message with one unit in front of every line that ends in a newline, the
\* fragment after the last newline left as it is; a message without a newline
\* prefixed as a whole
RECURSIVE ExceptFinalFrom(_, _)
ExceptFinalFrom(message, i) ==
    IF i > Len(message) THEN <<>>
    ELSE <<message[i]>>
            \o (IF message[i] = NL /\ \E j \in (i + 1)..Len(message) : message[j] = NL
                THEN indentation_sep ELSE <<>>)
            \o ExceptFinalFrom(message, i + 1)

PrefixedExceptFinal(message) == indentation_sep \o ExceptFinalFrom(message, 1)

\* every stream the frame patched has the write primitive it had at entry
Restored(frame) ==
    \A s \in WStreams : Patched(frame, s) => write[s] = frame.entry[s]

\* C1: when the finally block of an indentation scope (indent or
\* indent_logger) has run, after a return of func or after a raise, and control
\* has not yet gone back to the caller, every stream the scope patched has the
\* write primitive it had immediately before the scope was entered.
C1_RestoredBeforeReturn ==
    \A t \in Threads :
        (stack[t] # <<>>) => (Top(t).pc = "exit" => Restored(Top(t)))

\* an inner scope that func left by raising, restored to the wrapper of the
\* outer scope
C1_Witness ==
    /\ Len(stack[MainThread]) = 2
    /\ Top(MainThread).pc = "exit"
    /\ Top(MainThread).result.kind = "raise"
    /\ Patched(Top(MainThread), "s1")
    /\ Patched(stack[MainThread][1], "s1")
    /\ write["s1"] = 1

\* C3: a write to a stream goes through exactly as many indentation wrappers
\* as there are active scopes covering the stream, so the message the stream
\* receives carries that many units in front of each line: two inside two
\* nested scopes, one after the inner scope has exited, none after the outer.
\* (A zero-length message inside a scope reaches no stream: C6.)
C3_UnitsEqualActiveScopes ==
    lastWrite.stream # "none" =>
        LET k == Cardinality(Covering(lastWrite.stream))
        IN  /\ write[lastWrite.stream] = k
            /\ (lastWrite.msg # <<>> \/ k = 0) =>
                  /\ lastWrite.exc = "none"
                  /\ lastWrite.sink = <<Prefixed(lastWrite.msg, k)>>

\* a two-line message written inside two nested scopes over s1
C3_Witness ==
    /\ lastWrite.stream = "s1"
    /\ Cardinality(Covering("s1")) = 2
    /\ lastWrite.msg = <<NL, "a">>
    /\ lastWrite.sink = <<<<TAB, TAB, NL, TAB, TAB, "a">>>>

\* C5 as stated, for non-empty messages: the write produced by indent_write(W)
\* calls W once with the message in which every line that ends in a newline is
\* prefixed with one unit and the fragment after the last newline is not (a
\* message without a newline being prefixed as a whole), and returns what W
\* returns.
C5_AsStated ==
    (lastWrite.stream # "none" /\ lastWrite.msg # <<>>
        /\ write[lastWrite.stream] = 1) =>
        /\ lastWrite.exc = "none"
        /\ lastWrite.sink = <<PrefixedExceptFinal(lastWrite.msg)>>
        /\ lastWrite.ret = Len(PrefixedExceptFinal(lastWrite.msg))

\* C5 amended: called with a non-empty message, the write produced by
\* indent_write(W) calls W once with the message in which one unit is put at
\* the start and after every newline that is not the last character (so a
\* non-empty fragment after the last newline is prefixed too), and returns what
\* W returns.
C5_EveryLinePrefixed ==
    (lastWrite.stream # "none" /\ lastWrite.msg # <<>>
        /\ write[lastWrite.stream] = 1) =>
        /\ lastWrite.exc = "none"
        /\ lastWrite.sink = <<Prefixed(lastWrite.msg, 1)>>
        /\ lastWrite.ret = Len(Prefixed(lastWrite.msg, 1))

\* "\na" written through one wrapper: the fragment "a" is prefixed too
C5_Witness ==
    /\ lastWrite.stream = "s2"
    /\ write["s2"] = 1
    /\ lastWrite.msg = <<NL, "a">>
    /\ lastWrite.sink = <<<<TAB, NL, TAB, "a">>>>
    /\ lastWrite.ret = 4

\* C6: writing a zero-length message through a write primitive wrapped by
\* indent_write does not raise, and the original write is still called.
C6_EmptyMessageDoesNotRaise ==
    (lastWrite.stream # "none" /\ lastWrite.msg = <<>>) =>
        (lastWrite.exc = "none" /\ Len(lastWrite.sink) = 1)

\* C10: when func raised, the step that gives control back to the caller of
\* wrapper_inner hands it that same exception, not a return value and not
\* another exception, and the streams the scope patched are restored when the
\* step is taken.
C10_SameExceptionAfterRestore ==
    [][\A t \in Threads :
          (Len(stack'[t]) < Len(stack[t]) /\ Top(t).result.kind = "raise") =>
              (outcome'[t] = Top(t).result /\ Restored(Top(t)))]_vars

\* the outermost scope was left by E2, which reached the caller, the streams
\* being back to their own write
C10_Witness ==
    /\ stack[MainThread] = <<>>
    /\ outcome[MainThread] = [kind |-> "raise", val |-> "E2"]
    /\ \A s \in WStreams : write[s] = 0

----------------------------------------------------------------------------
(* Properties of the scoped destinations *)

\* the step is the end of the with block of scope c
Exits(c) == cm[c].st = "active" /\ cm'[c].st # "active"

\* C2: when the with block of a CMLogger scope (FileLogger, TelegramLogger)
\* ends, normally or by an exception raised in the block, the handler list of
\* its logger has the members it had immediately before the scope was entered.
C2_SameMembersAfterExit ==
    [][\A c \in ScopeIds :
          Exits(c) => Range(handlers'[cm[c].logger]) = Range(cm[c].entry)]_vars

\* a scope that had attached a handler was left by an exception
C2_Witness ==
    /\ cms = <<>>
    /\ cmOutcome.kind = "raise"
    /\ \E i \in 1..Len(log) : log[i].what = "removed"
    /\ Range(handlers["app"]) = {"h2", "hN"}

\* the step is the end, by an exception, of the with block of scope c, which
\* had attached a handler
ExitsRaising(c) == Exits(c) /\ cm[c].handler # "none" /\ cmOutcome'.kind = "raise"

\* the first logging call of the step is the traceback, at error severity, on
\* the logger of c, made while the handler of c is in the list, and the
\* handler is out of the list after the step
TracebackThenRemoved(c) ==
    /\ log' # <<>>
    /\ log'[1].what = "traceback"
    /\ log'[1].level = ERROR
    /\ log'[1].logger = cm[c].logger
    /\ cm[c].handler \in Range(handlers[cm[c].logger])
    /\ cm[c].handler \notin Range(handlers'[cm[c].logger])

\* C4 as stated: if the block of a scope with an attached destination raises,
\* __exit__ logs the failure detail at error severity while the handler is
\* still in the list and removes it afterwards, so that the destination
\* receives the message before it is detached.
C4_AsStated ==
    [][\A c \in ScopeIds :
          ExitsRaising(c) =>
              (TracebackThenRemoved(c) /\ cm[c].handler \in log'[1].to)]_vars

\* C4 amended: ... the destination receives the message before it is detached
\* exactly when the logger is enabled for ERROR and the level of the handler
\* is at most ERROR (a TelegramLogger of level CRITICAL, or a logger of
\* effective level CRITICAL, gets nothing).
C4_TracebackBeforeRemoval ==
    [][\A c \in ScopeIds :
          ExitsRaising(c) =>
              /\ TracebackThenRemoved(c)
              /\ cm[c].handler \in log'[1].to
                    <=> (EffectiveLevel(cm[c].logger) <= ERROR
                            /\ cm[c].hlevel <= ERROR)]_vars

\* the handler of c1 got the traceback and is no longer in the list
C4_Witness ==
    /\ log # <<>>
    /\ log[1].what = "traceback"
    /\ "c1" \in log[1].to
    /\ "c1" \notin Range(handlers["app"])
    /\ cmOutcome.kind = "raise"

\* C7: the handler a FileLogger scope attaches has the level given to
\* FileLogger as its level, so no record of a lower severity logged during the
\* scope is delivered to it.
C7_FileHandlerHasScopeLevel ==
    \A c \in ScopeIds :
        (cm[c].st = "active" /\ cm[c].cls = "FileLogger") =>
            /\ cm[c].hlevel = cm[c].level
            /\ \A i \in 1..Len(log) :
                  c \in log[i].to => log[i].level >= cm[c].level

\* chat_ID is None, 0, "0" or ""
ZeroOrEmpty(chat_ID) ==
    chat_ID \in {NoChat, IntChat(0), StrChat("0"), StrChat("")}

\* C8: a TelegramLogger whose chat_ID is zero or empty yields no destination
\* (the scope is entered and inert), nothing is raised and no record of error
\* severity is logged, whatever the other inputs are.  Stated for a
\* telegram_handler that can be imported: without it line 346 logs an error
\* on module_logger whatever chat_ID is.
C8_ZeroOrEmptyChatIsInert ==
    (lastEnter.cls = "TelegramLogger" /\ lastEnter.installed
        /\ ZeroOrEmpty(lastEnter.chat_ID)) =>
        /\ lastEnter.result = "inert"
        /\ cmOutcome.kind # "raise"
        /\ \A i \in 1..Len(log) : log[i].level < ERROR

\* C9: when create_new_handler raises in __enter__, the step logs the failure
\* on the logger of the scope at error severity, the caller gets the exception
\* that creation raised, the handler lists are as before, and the scope is not
\* among the open ones.
C9_CreationFailureReraised ==
    [][lastEnter'.result = "raise" =>
          /\ handlers' = handlers
          /\ cms' = cms
          /\ cm'[lastEnter'.scope].st = "unused"
          /\ cmOutcome' = [kind |-> "raise", val |-> lastEnter'.exc]
          /\ \E i \in 1..Len(log') :
                /\ log'[i].logger = lastEnter'.logger
                /\ log'[i].level = ERROR
                /\ log'[i].what = "create_failed"]_vars

\* a FileLogger whose file cannot be opened, inside the block of another scope
C9_Witness ==
    /\ lastEnter.result = "raise"
    /\ lastEnter.cls = "FileLogger"
    /\ cmOutcome = [kind |-> "raise", val |-> "OSError"]
    /\ cms = <<"c1">>
    /\ cm["c1"].handler = "c1"
    /\ Range(handlers["app"]) = {"h2", "hN", "c1"}

----------------------------------------------------------------------------
(* The specification of scoped destinations whose blocks end in any order *)

\* the scopes of the threads write to files
NextCMAny ==
    \/ \E c \in ScopeIds : WithOf(c, {"FileLogger"})
    \/ UserLog
    \/ ExitAny

\* one configuration of the loggers: every record reaches every handler
InitCMAny == InitCM /\ level["app"] = DEBUG /\ propagate["app"]

SpecCMAny == InitCMAny /\ [][NextCMAny]_vars

----------------------------------------------------------------------------
(* Properties of the scoped destinations, continued *)

\* C11: a CMLogger scope never suppresses an exception raised in its block:
\* once __exit__ has made its traceback call and taken its handler off the
\* logger, the caller of the with statement gets the very exception with which
\* the block ended.
C11_ExceptionNotSuppressed ==
    lastExit.how.kind = "raise" =>
        /\ cmOutcome = lastExit.how
        /\ cm[lastExit.scope].st = "unused"
        /\ lastExit.handler # "none" =>
              /\ \A l \in Loggers : lastExit.handler \notin Range(handlers[l])
              /\ \E i \in 1..Len(log) : log[i].what = "traceback"

\* the block of a scope that had attached a handler ended by exception E1
C11_Witness ==
    /\ lastExit.how = [kind |-> "raise", val |-> "E1"]
    /\ lastExit.handler # "none"
    /\ cmOutcome = [kind |-> "raise", val |-> "E1"]
    /\ \E i \in 1..Len(log) : log[i].what = "traceback"

\* C13: a scope whose creation step succeeded without yielding a handler is
\* inert: entering it leaves every handler list as it was, and its exit,
\* after a normal or an exceptional end of the block, leaves every handler list
\* as it was and makes no logging call.
C13_InertScope ==
    [][/\ lastEnter'.result = "inert" =>
              /\ handlers' = handlers
              /\ cm'[lastEnter'.scope].handler = "none"
       /\ \A c \in ScopeIds :
              (Exits(c) /\ cm[c].handler = "none") =>
                  /\ handlers' = handlers
                  /\ log' = <<>>]_vars

\* an inert scope has just been left by an exception
C13_Witness ==
    /\ lastExit.scope # "none"
    /\ lastExit.handler = "none"
    /\ lastExit.how.kind = "raise"
    /\ cmOutcome.kind = "raise"
    /\ log = <<>>

\* C17: with several scopes open on one logger and ended in any order, each
\* exit takes exactly the handler of its own scope off the list, keeping the
\* others and their order, and touches no other logger; when the last one has
\* ended, the handler lists are those from before the first entry.
C17_EachExitRemovesItsOwn ==
    [][\A c \in ScopeIds :
          Exits(c) =>
              LET l == cm[c].logger
                  h == cm[c].handler
                  Others(x) == x # h
              IN  /\ handlers'[l] = SelectSeq(handlers[l], Others)
                  /\ h # "none" => h \in Range(handlers[l])
                  /\ \A k \in Loggers \ {l} : handlers'[k] = handlers[k]
                  /\ cms' = <<>> => handlers' \in HandlerSetups]_vars

\* the scope entered first has ended while the one entered second is open
C17_Witness ==
    /\ lastExit.scope = "c1"
    /\ lastExit.handler = "c1"
    /\ cms = <<"c2">>
    /\ cm["c2"].handler = "c2"
    /\ handlers["app"] = <<"h2", "hN", "c2">>

----------------------------------------------------------------------------
(* Further specifications of the indentation scopes *)

\* a logger and its ancestor have handlers on the same stream
RepeatSetups ==
    {[root |-> <<"h1">>, pkg |-> <<"hT">>, app |-> <<"h1b", "h2">>]}

InitRepeat ==
    /\ write = [s \in WStreams |-> 0]
    /\ stack = [t \in Threads |-> <<>>]
    /\ outcome = [t \in Threads |-> None]
    /\ lastWrite = NoWrite
    /\ handlers \in RepeatSetups
    /\ propagate \in {p \in [Loggers -> BOOLEAN] : p["root"] /\ p["pkg"]}
    /\ level = [root |-> WARNING, pkg |-> NOTSET, app |-> DEBUG]
    /\ cm = [c \in ScopeIds |-> Unused]
    /\ cms = <<>>
    /\ cmOutcome = None
    /\ lastEnter = NoEnter
    /\ lastExit = NoExit
    /\ log = <<>>
    /\ timed = <<>>
    /\ now = 0
    /\ dur = 0
    /\ text = "unset"

\* one thread of control whose scopes may name a stream more than once
NextRepeat ==
    \/ IndentFrom(MainThread, RepeatLists)
    \/ IndentLogger(MainThread)
    \/ Write(MainThread)
    \/ FuncReturn(MainThread)
    \/ FuncRaise(MainThread)
    \/ Finally(MainThread)
    \/ Leave(MainThread)

SpecRepeat == InitRepeat /\ [][NextRepeat]_vars

\* every logger propagates
InitThreads == Init /\ \A l \in Loggers : propagate[l]

\* one thread of control whose calls of decorated functions, none of which
\* calls a decorated function itself, may name a stream that cannot be patched
NextFail ==
    \/ stack[MainThread] = <<>> /\ IndentFrom(MainThread, FailingLists)
    \/ stack[MainThread] = <<>> /\ Indent(MainThread)
    \/ Write(MainThread)
    \/ FuncReturn(MainThread)
    \/ FuncRaise(MainThread)
    \/ Finally(MainThread)
    \/ Leave(MainThread)

SpecFail == InitThreads /\ [][NextFail]_vars

\* two threads, each calling decorated functions that call no decorated
\* function themselves
NextThreads ==
    \E t \in Threads :
        \/ stack[t] = <<>> /\ IndentFrom(t, OverlapLists)
        \/ Write(t)
        \/ FuncReturn(t)
        \/ FuncRaise(t)
        \/ Finally(t)
        \/ Leave(t)

SpecThreads == InitThreads /\ [][NextThreads]_vars

----------------------------------------------------------------------------
(* Properties of the indentation scopes, continued *)

\* the logger and its ancestors, nearest first
RECURSIVE PathUp(_)
PathUp(l) == IF HasParent(l) THEN <<l>> \o PathUp(Parent(l)) ELSE <<l>>

\* the loggers on the way up from l that are reached through propagating
\* loggers only: l itself, and every ancestor below which all propagate
Targeted(l) ==
    {PathUp(l)[i] : i \in {k \in 1..Len(PathUp(l)) :
                              \A j \in 1..(k - 1) : propagate[PathUp(l)[j]]}}

\* the handlers with a stream on the targeted loggers, by logger and position
StreamHandlers(l) ==
    {<<a, i>> \in Targeted(l) \X (1..Cardinality(Handlers)) :
        i <= Len(handlers[a]) /\ HasStream(handlers[a][i])}

TargetedStreams(l) == {StreamOf(handlers[p[1]][p[2]]) : p \in StreamHandlers(l)}

\* the activations of wrapper_inner on every thread
Frames == UNION {Range(stack[t]) : t \in Threads}

\* C12: the streams an indent_logger scope targets are exactly those of the
\* handlers of its logger and of the ancestors reached by going up the parent
\* links through propagating loggers, the first non-propagating logger (its
\* own handlers included) or the root being the last; the scope patches those
\* that have a write and no other, so a stream that only handlers above the
\* stopping point have keeps its own write.
C12_TargetsOfChain ==
    /\ \A f \in Frames :
          f.logger # "none" =>
              /\ Range(f.streams) = TargetedStreams(f.logger)
              /\ \A s \in WStreams : Patched(f, s) <=> s \in TargetedStreams(f.logger)
    /\ \A t \in Threads :
          (Len(stack[t]) = 1 /\ Top(t).logger # "none" /\ Top(t).pc = "body") =>
              \A s \in WStreams \ TargetedStreams(Top(t).logger) : write[s] = 0

\* app does not propagate: its own streams are targeted, the root's s1 is not
C12_Witness ==
    /\ ~propagate["app"]
    /\ Len(stack[MainThread]) = 1
    /\ Top(MainThread).logger = "app"
    /\ Top(MainThread).pc = "body"
    /\ Top(MainThread).streams = <<"s2", "nw">>
    /\ write["s2"] = 1
    /\ write["s1"] = 0

\* C16: an indentation scope wraps the write of each stream it targets once,
\* also when the stream occurs more than once among its targets: while func
\* runs in the scope the stream carries one wrapper more than at entry, and a
\* message written to it in a single scope comes out with one unit per line.
C16_WrappedOncePerStream ==
    \A t \in Threads :
        (stack[t] # <<>> /\ Top(t).pc = "body") =>
            /\ \A s \in WStreams :
                  Patched(Top(t), s) => write[s] = Top(t).entry[s] + 1
            /\ (/\ Len(stack[t]) = 1
                /\ lastWrite.stream # "none"
                /\ Patched(Top(t), lastWrite.stream)
                /\ lastWrite.msg # <<>>) =>
                  lastWrite.sink = <<Prefixed(lastWrite.msg, 1)>>

\* the step of thread t is the finally block of its innermost scope
FinallyStep(t) ==
    /\ stack[t] # <<>>
    /\ Top(t).pc = "finally"
    /\ stack'[t] # <<>>
    /\ Len(stack'[t]) = Len(stack[t])
    /\ stack'[t][Len(stack'[t])].pc = "exit"

\* no scope other than the innermost one of thread t patched s and is active
OnlyTopCovers(t, s) == Covering(s) \subseteq {<<t, Len(stack[t])>>}

\* C18: the finally block of a scope assigns to each stream it patched the
\* primitive it read at entry; when that is the wrapper of a scope of another
\* thread which has exited in the meantime, the stream is left wrapped
\* although no scope that patched it is active any more.
C18_RestoresWhatItSaved ==
    [][\A t \in Threads : \A s \in WStreams :
          (FinallyStep(t) /\ Patched(Top(t), s)) =>
              /\ write'[s] = Top(t).entry[s]
              /\ (Top(t).entry[s] > 0 /\ OnlyTopCovers(t, s)) => write'[s] > 0]_vars

\* both threads have left their scopes over s1, the second entered while the
\* first was active and left after it: s1 is still wrapped once
C18_Witness ==
    /\ \A t \in Threads : stack[t] = <<>> /\ outcome[t].kind = "return"
    /\ write["s1"] = 1
    /\ write["s2"] = 0

\* C19: a targeted stream without a write, and a handler without a stream, are
\* passed over and nothing is raised: the scope is entered, saves nothing for
\* such a stream and never assigns to it, has one target per handler that has
\* a stream, and every target with a write carries one wrapper more than at
\* entry while func runs and the primitive of entry once the finally block is
\* done.
C19_SkippedWithoutRaising ==
    /\ \A t \in Threads : outcome[t].val # "AttributeError"
    /\ \A f \in Frames :
          /\ \A i \in 1..Len(f.streams) :
                f.old_write[i] = IF HasWrite(f.streams[i])
                                 THEN <<f.entry[f.streams[i]]>> ELSE <<>>
          /\ f.logger # "none" =>
                Len(f.streams) = Cardinality(StreamHandlers(f.logger))
    /\ \A t \in Threads :
          stack[t] # <<>> =>
              \A s \in WStreams \cap Range(Top(t).streams) :
                  /\ Top(t).pc = "body" => write[s] = Top(t).entry[s] + 1
                  /\ Top(t).pc = "exit" => write[s] = Top(t).entry[s]

\* @indent(nw, s1): s1 was wrapped and is restored, nw was passed over
C19_Witness ==
    /\ stack[MainThread] # <<>>
    /\ Top(MainThread).streams = <<"nw", "s1">>
    /\ Top(MainThread).old_write = <<<<>>, <<0>>>>
    /\ Top(MainThread).pc = "exit"
    /\ write["s1"] = 0

\* the step is an entry of a scope that failed on an assignment of line 197
EntryFails ==
    /\ \E t \in Threads :
          outcome'[t] = [kind |-> "raise", val |-> "AttributeError"]
    /\ stack' = stack
    /\ lastWrite' = NoWrite

\* C20: when the assignment of the wrapper raises on one of the targets, the
\* streams the scope had wrapped before it are restored before the error
\* reaches the caller: the entry that fails leaves every write as it was.
C20_FailedEntryLeavesNothingPatched ==
    [][EntryFails => write' = write]_vars

----------------------------------------------------------------------------
(* pretty_time and exec_time.  Times are in tenths of a second. *)

\* longest duration given to pretty_time, in tenths of a second
MaxTenths == 37000
\* latest reading of the clock, in tenths of a second
MaxClock == 54100

\* f"{s:.1f}" of a number of seconds given in tenths
OneDecimal(s) == ToString(s \div 10) \o "." \o ToString(s % 10)

\* a pretty_time that always shows the minutes
PrettyTimeWithZeroMinutes(t) ==
    LET h == t \div (3600 * 10)
        t1 == t - h * (3600 * 10)
        m == t1 \div (60 * 10)
        s == t1 - m * (60 * 10)
    IN  (IF h > 0 THEN ToString(h) \o " h " ELSE "")
            \o ToString(m) \o " min "
            \o OneDecimal(s) \o " s"

\* pretty_time(t), lines 44-54
PrettyTime(t) ==
    LET h == t \div (3600 * 10)
        t1 == t - h * (3600 * 10)
        m == t1 \div (60 * 10)
        s == t1 - m * (60 * 10)
    IN  (IF h > 0 THEN ToString(h) \o " h " ELSE "")
            \o (IF m > 0 THEN ToString(m) \o " min " ELSE "")
            \o OneDecimal(s) \o " s"

\* a call pretty_time(dur / 10)
PrettyTimeCall ==
    /\ text = "unset"
    /\ text' = PrettyTime(dur)
    /\ UNCHANGED <<indVars, logVars, cmVars, timed, now, dur>>

InitTime ==
    /\ write = [s \in WStreams |-> 0]
    /\ stack = [t \in Threads |-> <<>>]
    /\ outcome = [t \in Threads |-> None]
    /\ lastWrite = NoWrite
    /\ handlers \in HandlerSetups
    /\ propagate = [l \in Loggers |-> TRUE]
    /\ level = [root |-> WARNING, pkg |-> NOTSET, app |-> DEBUG]
    /\ cm = [c \in ScopeIds |-> Unused]
    /\ cms = <<>>
    /\ cmOutcome = None
    /\ lastEnter = NoEnter
    /\ lastExit = NoExit
    /\ log = <<>>
    /\ timed = <<>>
    /\ now = 0
    /\ dur \in 0..MaxTenths
    /\ text = "unset"

SpecTime == InitTime /\ [][PrettyTimeCall]_vars

\* func.__name__ of the decorated functions, and the loggers given to exec_time
Units == {"f", "g"}
ExecLoggers == {"app"}

\* the steps by which time.time() grows between two readings
TickSizes == {18000, 36014}

TimedTop == timed[Len(timed)]

\* lines 292-293, up to the call of func: read the clock, log "<name>:"
ExecCall ==
    /\ Len(timed) < MaxDepth
    /\ IF timed = <<>> THEN TRUE ELSE TimedTop.pc = "body"
    /\ \E func \in Units, l \in ExecLoggers :
          /\ timed' = Append(timed, [func |-> func, logger |-> l, start_time |-> now,
                                     pc |-> "body", result |-> None])
          /\ log' = <<LogCall(handlers, cm, l, INFO, func \o ":")>>
    /\ outcome' = [outcome EXCEPT ![MainThread] = None]
    /\ UNCHANGED <<write, stack, lastWrite, logVars, cm, cms, cmOutcome,
                   lastEnter, lastExit, now, dur, text>>

\* time passes
Tick ==
    /\ \E d \in TickSizes : now + d <= MaxClock /\ now' = now + d
    /\ log' = <<>>
    /\ UNCHANGED <<indVars, logVars, cm, cms, cmOutcome, lastEnter, lastExit,
                   timed, dur, text>>

\* func returns r (line 294)
UnitReturn ==
    /\ timed # <<>> /\ TimedTop.pc = "body"
    /\ \E r \in Values :
          timed' = [timed EXCEPT ![Len(timed)] =
                       [@ EXCEPT !.pc = "after",
                                 !.result = [kind |-> "return", val |-> r]]]
    /\ log' = <<>>
    /\ UNCHANGED <<indVars, logVars, cm, cms, cmOutcome, lastEnter, lastExit,
                   now, dur, text>>

\* func raises e (line 294)
UnitRaise ==
    /\ timed # <<>> /\ TimedTop.pc = "body"
    /\ \E e \in Exceptions :
          timed' = [timed EXCEPT ![Len(timed)] =
                       [@ EXCEPT !.pc = "after",
                                 !.result = [kind |-> "raise", val |-> e]]]
    /\ log' = <<>>
    /\ UNCHANGED <<indVars, logVars, cm, cms, cmOutcome, lastEnter, lastExit,
                   now, dur, text>>

\* a wrapper_inner that logs the completion in a finally block
CompletionCallsAlways(frame, clock) ==
    <<LogCall(handlers, cm, frame.logger, INFO,
              frame.func \o ": completed in "
                  \o PrettyTime(clock - frame.start_time))>>

\* lines 295-297: the logging calls made after line 294; the line is in no try
\* statement, so an exception of func leaves wrapper_inner there
CompletionCalls(frame, clock) ==
    IF frame.result.kind = "return"
    THEN <<LogCall(handlers, cm, frame.logger, INFO,
                   frame.func \o ": completed in "
                       \o PrettyTime(clock - frame.start_time))>>
    ELSE <<>>

\* control goes back to the caller of wrapper_inner: after lines 295-298, or
\* with the exception of func
ExecLeave ==
    /\ timed # <<>> /\ TimedTop.pc = "after"
    /\ log' = CompletionCalls(TimedTop, now)
    /\ outcome' = [outcome EXCEPT ![MainThread] = TimedTop.result]
    /\ timed' = SubSeq(timed, 1, Len(timed) - 1)
    /\ UNCHANGED <<write, stack, lastWrite, logVars, cm, cms, cmOutcome,
                   lastEnter, lastExit, now, dur, text>>

NextExec ==
    \/ ExecCall
    \/ Tick
    \/ UnitReturn
    \/ UnitRaise
    \/ ExecLeave

SpecExec == InitThreads /\ [][NextExec]_vars

----------------------------------------------------------------------------
(* Properties of exec_time and pretty_time *)

\* C14: exec_time logs the start message, which holds the name of the unit,
\* in the step that starts the unit; the step that gives control back to the
\* caller logs the completion message if the unit returned and nothing if
\* the unit raised, and hands the caller what the unit gave: its return value,
\* or its exception; the activation is over in both cases.
C14_CompletionIffReturned ==
    [][/\ Len(timed') > Len(timed) =>
              /\ timed'[Len(timed')].pc = "body"
              /\ Len(log') = 1
              /\ log'[1].what = timed'[Len(timed')].func \o ":"
       /\ Len(timed') < Len(timed) =>
              /\ Len(timed') = Len(timed) - 1
              /\ outcome'[MainThread] = TimedTop.result
              /\ TimedTop.result.kind = "return" =>
                    /\ Len(log') = 1
                    /\ log'[1].what =
                          TimedTop.func \o ": completed in "
                              \o PrettyTime(now - TimedTop.start_time)
              /\ TimedTop.result.kind = "raise" => log' = <<>>
       /\ (Len(timed') = Len(timed) /\ timed # <<>>) => log' = <<>>]_vars

\* g raised E1 half an hour after its start, inside f: nothing was logged and
\* E1 is what the caller, f, got
C14_Witness ==
    /\ Len(timed) = 1
    /\ timed[1].func = "f"
    /\ timed[1].pc = "body"
    /\ outcome[MainThread] = [kind |-> "raise", val |-> "E1"]
    /\ log = <<>>
    /\ now = 18000

\* the text for t tenths of a second, put together from the whole hours, the
\* whole minutes left and the tenths of a second left
HoursOf(t) == t \div 36000
MinutesOf(t) == (t % 36000) \div 600
TenthsOf(t) == t % 600
ExpectedText(t) ==
    (IF HoursOf(t) >= 1 THEN ToString(HoursOf(t)) \o " h " ELSE "")
        \o (IF MinutesOf(t) >= 1 THEN ToString(MinutesOf(t)) \o " min " ELSE "")
        \o ToString(TenthsOf(t) \div 10) \o "." \o ToString(TenthsOf(t) % 10)
        \o " s"

\* C15: for a duration of dur tenths of a second, pretty_time returns
\* "<H> h <M> min <S.D> s" with the hours shown only if there is at least one
\* whole hour, the minutes shown only if at least one whole minute is left
\* after the hours, and the seconds left always shown with one decimal digit:
\* 124 s gives "2 min 4.0 s" and 3601.4 s gives "1 h 1.4 s".
C15_PrettyTimeFormat ==
    text # "unset" =>
        /\ text = ExpectedText(dur)
        /\ dur = 1240 => text = "2 min 4.0 s"
        /\ dur = 36014 => text = "1 h 1.4 s"

\* 3601.4 s
C15_Witness ==
    /\ dur = 36014
    /\ text = "1 h 1.4 s"

====
